---- MODULE Spec2Model ----
(***************************************************************************)
(* A model of epub_compressor: compress_epub (the archive pipeline),       *)
(* process_file (the member processor) and convert_image (the transcoder), *)
(* for both copies of the pipeline in the repository: compress.py, which   *)
(* classifies a member by its name (mimetypes.guess_type), and app.py,     *)
(* which classifies it by its bytes (magic.from_buffer).                   *)
(*                                                                         *)
(* Strings whose characters the code inspects (member names, MIME types)   *)
(* are sequences of one-character strings, so that lower(), startswith()   *)
(* and the substring test are computed and not assumed.                    *)
(***************************************************************************)
EXTENDS Integers, Sequences, FiniteSets, TLC

VARIABLES
    impl,        \* "compress" (compress.py) or "app" (app.py): which copy runs
    img_format,  \* the img_format argument of compress_epub
    quality,     \* the quality argument of compress_epub
    inputOk,     \* whether zipfile.ZipFile(epub) can open the input
    source,      \* the stored entries of the source archive, in directory order
    zinfo,       \* file_list: the ZipInfo objects of book, shared by every user
    task,        \* the futures: one per submitted item
    nsub,        \* how many items the list comprehension has submitted
    dest,        \* the entries written to epub_file so far, in writing order
    finalized,   \* whether epub_file has been closed (central directory written)
    exc,         \* the exception in flight in the orchestrating thread
    cli,         \* the command-line program around compress_epub (cli.py main)
    pc           \* the position of the orchestrating thread in compress_epub

vars == <<impl, img_format, quality, inputOk, source, zinfo, task, nsub, dest,
          finalized, exc, cli, pc>>

----------------------------------------------------------------------------
(* Bounds of the model *)

\* the largest number of entries of a source archive
MaxMembers == 3

\* -q default of the command line
DefaultQuality == 75

Formats == {"WEBP", "AVIF"}

Qualities == {DefaultQuality}

----------------------------------------------------------------------------
(* Character strings *)

UpperCase ==
    <<"A","B","C","D","E","F","G","H","I","J","K","L","M",
      "N","O","P","Q","R","S","T","U","V","W","X","Y","Z">>

LowerCase ==
    <<"a","b","c","d","e","f","g","h","i","j","k","l","m",
      "n","o","p","q","r","s","t","u","v","w","x","y","z">>

\* the lower-case letter of each upper-case letter
LowerOf ==
    [c \in {UpperCase[i] : i \in 1..Len(UpperCase)} |->
        LowerCase[CHOOSE i \in 1..Len(UpperCase) : UpperCase[i] = c]]

\* str.lower() on one character
LowerChar(c) == IF c \in DOMAIN LowerOf THEN LowerOf[c] ELSE c

\* str.lower()
Lower(s) == [i \in 1..Len(s) |-> LowerChar(s[i])]

\* sub in s
Contains(s, sub) ==
    \E i \in 1..(Len(s) - Len(sub) + 1) : SubSeq(s, i, i + Len(sub) - 1) = sub

\* s.startswith(p)
StartsWith(s, p) == Len(s) >= Len(p) /\ SubSeq(s, 1, Len(p)) = p

StrCover == <<"c","o","v","e","r">>

StrImage == <<"i","m","a","g","e">>

MimePng == <<"i","m","a","g","e","/","p","n","g">>

MimeJpeg == <<"i","m","a","g","e","/","j","p","e","g">>

MimeXhtml ==
    <<"a","p","p","l","i","c","a","t","i","o","n","/","x","h","t","m","l","+","x","m","l">>

MimeText == <<"t","e","x","t","/","p","l","a","i","n">>

\* mimetypes.guess_type found no type: None
NoMime == <<>>

----------------------------------------------------------------------------
(* Bytes.  A byte string is abstracted to what the pipeline and the codec  *)
(* can tell of it: whether it is text, a decodable image or a corrupt      *)
(* image, which stored blob it is (id), and the encoding it carries ("raw" *)
(* for bytes as stored in the source; the target format once re-encoded).  *)

NoBytes == [kind |-> "none", id |-> 0, enc |-> "raw", quality |-> 0]

Raw(k, n) == [kind |-> k, id |-> n, enc |-> "raw", quality |-> 0]

\* Image.open(io.BytesIO(image)) succeeds on these bytes
Decodable(image) == image.kind = "image"

\* img.save(output_io, format=img_format, quality=quality); output_io.getvalue()
Encoded(image, q, fmt) ==
    [kind |-> "image", id |-> image.id, enc |-> fmt, quality |-> q]

\* What the codec can do with the bytes: bytes it cannot decode always fail,
\* bytes it can decode may still fail in decode or encode (a codec error).
CodecOutcomes(image) == IF Decodable(image) THEN {"ok", "error"} ELSE {"error"}

\* convert_image without its try/except: a codec failure escapes as an exception
ConvertImageUncaught(image, q, fmt, codec) ==
    IF codec = "ok"
    THEN [raised |-> FALSE, bytes |-> Encoded(image, q, fmt)]
    ELSE [raised |-> TRUE, bytes |-> NoBytes]

\* convert_image returning what the output buffer holds when the codec failed
ConvertImageEmptyOnError(image, q, fmt, codec) ==
    IF codec = "ok"
    THEN [raised |-> FALSE, bytes |-> Encoded(image, q, fmt)]
    ELSE [raised |-> FALSE, bytes |-> [image EXCEPT !.kind = "empty"]]

\* convert_image: the re-encoded bytes, or on any exception the bytes it was given
ConvertImage(image, q, fmt, codec) ==
    IF codec = "ok"
    THEN [raised |-> FALSE, bytes |-> Encoded(image, q, fmt)]
    ELSE [raised |-> FALSE, bytes |-> image]

----------------------------------------------------------------------------
(* Content Classifier *)

\* s.rfind(ch), counted from 1; 0 when ch does not occur
LastIndex(s, ch) ==
    LET at == {i \in 1..Len(s) : s[i] = ch}
    IN IF at = {} THEN 0 ELSE CHOOSE i \in at : \A j \in at : j <= i

\* posixpath.splitext(name)[1], as mimetypes.guess_type takes the extension
SplitExt(name) ==
    LET sep == LastIndex(name, "/")
        dot == LastIndex(name, ".")
    IN IF dot > sep /\ (\E k \in (sep + 1)..(dot - 1) : name[k] # ".")
       THEN SubSeq(name, dot, Len(name))
       ELSE <<>>

\* the entries of mimetypes.types_map that the member names of the model meet
TypesMap(ext) ==
    CASE ext = <<".","p","n","g">> -> MimePng
      [] ext = <<".","j","p","g">> -> MimeJpeg
      [] ext = <<".","x","h","t","m","l">> -> MimeXhtml
      [] OTHER -> NoMime

\* mimetypes.guess_type(item.filename)[0]: the extension as written, then lowered
GuessType(name) ==
    LET ext == SplitExt(name)
    IN IF TypesMap(ext) # NoMime THEN TypesMap(ext) ELSE TypesMap(Lower(ext))

\* magic.from_buffer(file_content, mime=True): by the signature of the bytes;
\* a truncated PNG still carries the PNG signature
FromBuffer(file_content) ==
    IF file_content.kind \in {"image", "corrupt"} THEN MimePng ELSE MimeText

\* mime_type of process_file, for the copy of the pipeline that runs
MimeTypeOf(filename, file_content) ==
    IF impl = "compress" THEN GuessType(filename) ELSE FromBuffer(file_content)

\* the cover test dropped from the condition
EligibleNoCoverTest(mime_type, filename) ==
    mime_type # NoMime /\ StartsWith(mime_type, StrImage)

\* the cover test made on the name as written, without lower()
EligibleCaseSensitive(mime_type, filename) ==
    /\ mime_type # NoMime
    /\ StartsWith(mime_type, StrImage)
    /\ ~Contains(filename, StrCover)

\* the condition of process_file's if
Eligible(mime_type, filename) ==
    /\ mime_type # NoMime
    /\ StartsWith(mime_type, StrImage)
    /\ ~Contains(Lower(filename), StrCover)

----------------------------------------------------------------------------
(* Source archives *)

Member(name, content, dt, ct, attr) ==
    [filename |-> name, content |-> content, date_time |-> dt,
     compress_type |-> ct, external_attr |-> attr]

\* The stored entries archives are made of.  external_attr is 0 (an entry made
\* by a tool that records no permissions), 0o644 << 16 or 0o600 << 16.
\* 1..7 have distinct names; 8 and 9
\* repeat the names of 3 and 5 with other bytes (a zip archive may hold two
\* entries of one name; an EPUB container, where the name is the identity of
\* the member, may not).
Pool ==
    << Member(<<"m","i","m","e","t","y","p","e">>, Raw("text", 1), 2001, 0, 0),
       Member(<<"C","o","v","e","r",".","J","P","G">>, Raw("image", 2), 2002, 0, 27525120),
       Member(<<"f","i","g","1",".","p","n","g">>, Raw("image", 3), 2003, 8, 27525120),
       Member(<<"f","i","g","2",".","P","N","G">>, Raw("corrupt", 4), 2004, 0, 25165824),
       Member(<<"c","h","1",".","x","h","t","m","l">>, Raw("text", 5), 2005, 8, 27525120),
       Member(<<"n","o","t","e",".","p","n","g">>, Raw("text", 6), 2006, 8, 25165824),
       Member(<<"p","h","o","t","o">>, Raw("image", 7), 2007, 0, 27525120),
       Member(<<"f","i","g","1",".","p","n","g">>, Raw("image", 8), 2008, 0, 25165824),
       Member(<<"c","h","1",".","x","h","t","m","l">>, Raw("text", 9), 2009, 0, 27525120) >>

\* the entries with distinct names
UniquePool == 1..7

AnyPool == 1..Len(Pool)

RECURSIVE InOrder(_)
\* the members of a set of pool indices, in pool order
InOrder(S) ==
    IF S = {} THEN <<>>
    ELSE LET m == CHOOSE x \in S : \A y \in S : x <= y
         IN <<Pool[m]>> \o InOrder(S \ {m})

\* the archives of at most MaxMembers entries drawn from the pool indices P
Archives(P) == {InOrder(S) : S \in {T \in SUBSET P : Cardinality(T) <= MaxMembers}}

----------------------------------------------------------------------------
(* The source reader: zipfile.ZipFile(epub), book.infolist(), book.read(name) *)

\* The ZipInfo object of stored entry i as the reader builds it: the metadata
\* of the entry, and where and what its data is (header_offset, CRC).
ZipInfoOf(i) ==
    [filename |-> source[i].filename, date_time |-> source[i].date_time,
     compress_type |-> source[i].compress_type,
     external_attr |-> source[i].external_attr,
     header_offset |-> [file |-> "src", at |-> i], CRC |-> source[i].content]

\* book.NameToInfo[name]: the directory is read in order, a later entry of the
\* same name replaces the earlier one
NameToInfo(name) ==
    CHOOSE j \in 1..Len(zinfo) :
        /\ zinfo[j].filename = name
        /\ \A k \in 1..Len(zinfo) : zinfo[k].filename = name => k <= j

\* book.read(item.filename): the outcomes of the read.  The record the name
\* resolves to says where the data is.  While it describes the source, the read
\* returns the stored bytes.  Once writestr has rewritten it (header_offset and
\* CRC are then those of the destination), the reader seeks to that offset in
\* the source file: it raises BadZipFile (bad magic number, other name, bad
\* CRC-32) unless a local header of that name with data of that CRC happens to
\* lie there; byte offsets are not modelled, so both outcomes are possible then.
ReadByName(item) ==
    LET info == zinfo[NameToInfo(zinfo[item].filename)]
    IN IF info.header_offset.file = "src"
       THEN {[raised |-> FALSE, bytes |-> source[info.header_offset.at].content]}
       ELSE {[raised |-> TRUE, bytes |-> NoBytes]}
            \cup {[raised |-> FALSE, bytes |-> source[k].content] :
                    k \in {x \in 1..Len(source) :
                             /\ source[x].filename = info.filename
                             /\ source[x].content = info.CRC}}

----------------------------------------------------------------------------
(* The destination writer: epub_file.writestr(item, content) *)

\* the external attributes writestr writes for a ZipInfo: attributes of 0
\* are replaced by 0o600 << 16 (zipfile sets them when it opens the entry for
\* writing: "if not zinfo.external_attr")
WrittenAttr(item) ==
    IF zinfo[item].external_attr = 0 THEN 25165824 ELSE zinfo[item].external_attr

\* an entry renamed after the format its content was re-encoded to
WriteStrNewExt(item, content) ==
    [filename |-> IF content.enc = "raw" THEN zinfo[item].filename
                  ELSE zinfo[item].filename \o <<".","w","e","b","p">>,
     date_time |-> zinfo[item].date_time,
     compress_type |-> zinfo[item].compress_type,
     external_attr |-> WrittenAttr(item),
     content |-> content, item |-> item]

\* the entry writestr appends: header fields from the ZipInfo, the data given
WriteStr(item, content) ==
    [filename |-> zinfo[item].filename, date_time |-> zinfo[item].date_time,
     compress_type |-> zinfo[item].compress_type,
     external_attr |-> WrittenAttr(item),
     content |-> content, item |-> item]

\* writestr updates the ZipInfo it was given in place: it now describes the
\* entry in the destination
Rewritten(item, content) ==
    [zinfo[item] EXCEPT !.header_offset = [file |-> "dst", at |-> Len(dest) + 1],
                        !.CRC = content,
                        !.external_attr = WrittenAttr(item)]

----------------------------------------------------------------------------
(* Member Processor *)

\* process_file after its read, given what the codec will do: the item it was
\* given and the content (called: whether it called convert_image; raised:
\* whether an exception left it)
ProcessFile(item, file_content, q, fmt, codec) ==
    IF Eligible(MimeTypeOf(zinfo[item].filename, file_content), zinfo[item].filename)
    THEN LET r == ConvertImage(file_content, q, fmt, codec)
         IN [item |-> item, called |-> TRUE, raised |-> r.raised, bytes |-> r.bytes]
    ELSE [item |-> item, called |-> FALSE, raised |-> FALSE, bytes |-> file_content]

----------------------------------------------------------------------------
(* compress_epub *)

\* a future as submit creates it, for process_file(item, book, quality,
\* img_format): arg is the item bound to the call; buf is file_content; item and
\* out are the result; called and codec record the call of convert_image
Future(item) ==
    [arg |-> item, status |-> "queued", buf |-> NoBytes, item |-> 0,
     out |-> NoBytes, called |-> FALSE, codec |-> "none", yielded |-> FALSE]

Tasks == 1..Len(task)

\* the future holds a result or an exception
Finished(t) == task[t].status \in {"done", "raised"}

\* the state of a caller of compress_epub: at is "lib" when compress_epub is
\* called as a function (no command line), else the position of main; code is
\* the exit code of the process (-1 while it runs); file tells whether the
\* output path holds the compressed archive; msg is what the user was told
Caller(at) == [at |-> at, code |-> -1, file |-> "none", msg |-> "none"]

InitPipeline ==
    /\ img_format \in Formats
    /\ quality \in Qualities
    /\ zinfo = <<>>
    /\ task = <<>>
    /\ nsub = 0
    /\ dest = <<>>
    /\ finalized = FALSE
    /\ exc = "none"
    /\ pc = "open"

InitCommon ==
    /\ InitPipeline
    /\ cli = Caller("lib")
    /\ impl \in {"compress", "app"}

\* the inputs of the specification (section 6): well-formed archives, in which
\* a name identifies one member
Init ==
    /\ InitCommon
    /\ inputOk = TRUE
    /\ source \in Archives(UniquePool)

\* every input: bytes that are no archive, and archives that repeat a name
InitAny ==
    /\ InitCommon
    /\ inputOk \in BOOLEAN
    /\ source \in IF inputOk THEN Archives(AnyPool) ELSE {<<>>}

\* book = zipfile.ZipFile(epub); file_list = book.infolist(); file = BytesIO();
\* the two with statements are entered.  Bytes that are no archive raise here.
Open ==
    /\ pc = "open"
    /\ IF inputOk
       THEN /\ zinfo' = [i \in 1..Len(source) |-> ZipInfoOf(i)]
            /\ pc' = IF Len(source) = 0 THEN "collect" ELSE "submit"
            /\ exc' = exc
       ELSE /\ zinfo' = zinfo
            /\ pc' = "raised"
            /\ exc' = "BadZipFile"
    /\ UNCHANGED <<cli, impl, img_format, quality, inputOk, source, task, nsub, dest,
                   finalized>>

\* every call bound to the item the loop variable holds last
SubmitLastItem ==
    /\ pc = "submit"
    /\ nsub < Len(zinfo)
    /\ task' = Append(task, Future(Len(zinfo)))
    /\ nsub' = nsub + 1
    /\ pc' = IF nsub + 1 = Len(zinfo) THEN "collect" ELSE "submit"
    /\ UNCHANGED <<cli, impl, img_format, quality, inputOk, source, zinfo, dest,
                   finalized, exc>>

\* one turn of the list comprehension: executor.submit(process_file, item, ...)
Submit ==
    /\ pc = "submit"
    /\ nsub < Len(zinfo)
    /\ task' = Append(task, Future(nsub + 1))
    /\ nsub' = nsub + 1
    /\ pc' = IF nsub + 1 = Len(zinfo) THEN "collect" ELSE "submit"
    /\ UNCHANGED <<cli, impl, img_format, quality, inputOk, source, zinfo, dest,
                   finalized, exc>>

\* a worker runs the first line of process_file for task t
TaskRead(t) ==
    /\ task[t].status = "queued"
    /\ \E r \in ReadByName(task[t].arg) :
         task' = [task EXCEPT ![t].status = IF r.raised THEN "raised" ELSE "read",
                              ![t].buf = r.bytes]
    /\ UNCHANGED <<cli, impl, img_format, quality, inputOk, source, zinfo, nsub, dest,
                   finalized, exc, pc>>

\* process_file given epub_file and writing its result itself
TaskProcessWrites(t) ==
    /\ task[t].status = "read"
    /\ \E codec \in CodecOutcomes(task[t].buf) :
         \E r \in {ProcessFile(task[t].arg, task[t].buf, quality, img_format, codec)} :
            /\ task' = [task EXCEPT ![t].status = IF r.raised THEN "raised" ELSE "done",
                                    ![t].item = r.item,
                                    ![t].out = r.bytes,
                                    ![t].called = r.called,
                                    ![t].codec = IF r.called THEN codec ELSE "none",
                                    ![t].yielded = TRUE]
            /\ dest' = Append(dest, WriteStr(r.item, r.bytes))
    /\ UNCHANGED <<cli, impl, img_format, quality, inputOk, source, zinfo, nsub,
                   finalized, exc, pc>>

\* the worker runs the rest of process_file; the future gets its result
TaskProcess(t) ==
    /\ task[t].status = "read"
    /\ \E codec \in CodecOutcomes(task[t].buf) :
         \E r \in {ProcessFile(task[t].arg, task[t].buf, quality, img_format, codec)} :
            task' = [task EXCEPT ![t].status = IF r.raised THEN "raised" ELSE "done",
                                 ![t].item = r.item,
                                 ![t].out = r.bytes,
                                 ![t].called = r.called,
                                 ![t].codec = IF r.called THEN codec ELSE "none"]
    /\ UNCHANGED <<cli, impl, img_format, quality, inputOk, source, zinfo, nsub, dest,
                   finalized, exc, pc>>

\* the loop pairing the k-th completed result with the k-th item of the
\* enumeration (results of as_completed zipped with book.filelist)
CollectInSourceOrder(t) ==
    /\ pc = "collect"
    /\ Finished(t)
    /\ ~task[t].yielded
    /\ task' = [task EXCEPT ![t].yielded = TRUE]
    /\ IF task[t].status = "raised"
       THEN /\ exc' = "BadZipFile"
            /\ pc' = "unwind"
            /\ UNCHANGED <<dest, zinfo>>
       ELSE /\ dest' = Append(dest, WriteStr(Len(dest) + 1, task[t].out))
            /\ zinfo' = [zinfo EXCEPT ![Len(dest) + 1] =
                                        Rewritten(Len(dest) + 1, task[t].out)]
            /\ UNCHANGED <<exc, pc>>
    /\ UNCHANGED <<cli, impl, img_format, quality, inputOk, source, nsub, finalized>>

\* the loop taking the futures as they were submitted without waiting for
\* them: a task that has only read yet has its buffer written as its result
CollectUnfinished(t) ==
    /\ pc = "collect"
    /\ task[t].status # "queued"
    /\ ~task[t].yielded
    /\ task' = [task EXCEPT ![t].yielded = TRUE]
    /\ IF task[t].status = "raised"
       THEN /\ exc' = "BadZipFile"
            /\ pc' = "unwind"
            /\ UNCHANGED <<dest, zinfo>>
       ELSE LET content == IF task[t].status = "done" THEN task[t].out
                           ELSE task[t].buf
            IN /\ dest' = Append(dest, WriteStr(task[t].arg, content))
               /\ zinfo' = [zinfo EXCEPT ![task[t].arg] =
                                           Rewritten(task[t].arg, content)]
               /\ UNCHANGED <<exc, pc>>
    /\ UNCHANGED <<cli, impl, img_format, quality, inputOk, source, nsub, finalized>>

\* the loop catching a task's exception and going on to the next future
CollectSkipFailed(t) ==
    /\ pc = "collect"
    /\ Finished(t)
    /\ ~task[t].yielded
    /\ task' = [task EXCEPT ![t].yielded = TRUE]
    /\ IF task[t].status = "raised"
       THEN UNCHANGED <<dest, zinfo>>
       ELSE /\ dest' = Append(dest, WriteStr(task[t].item, task[t].out))
            /\ zinfo' = [zinfo EXCEPT ![task[t].item] =
                                        Rewritten(task[t].item, task[t].out)]
    /\ UNCHANGED <<cli, impl, img_format, quality, inputOk, source, nsub, finalized,
                   exc, pc>>

\* the two with statements nested the other way round: a task's exception
\* closes epub_file before the executor has waited for the tasks
CollectClosingFirst(t) ==
    /\ pc = "collect"
    /\ Finished(t)
    /\ ~task[t].yielded
    /\ task' = [task EXCEPT ![t].yielded = TRUE]
    /\ IF task[t].status = "raised"
       THEN /\ exc' = "BadZipFile"
            /\ pc' = "unwind"
            /\ finalized' = TRUE
            /\ UNCHANGED <<dest, zinfo>>
       ELSE /\ dest' = Append(dest, WriteStr(task[t].item, task[t].out))
            /\ zinfo' = [zinfo EXCEPT ![task[t].item] =
                                        Rewritten(task[t].item, task[t].out)]
            /\ UNCHANGED <<exc, pc, finalized>>
    /\ UNCHANGED <<cli, impl, img_format, quality, inputOk, source, nsub>>

\* one turn of the for loop: as_completed yields a finished future not yielded
\* before; future.result() raises the task's exception or gives (item, content),
\* which writestr appends
Collect(t) ==
    /\ pc = "collect"
    /\ Finished(t)
    /\ ~task[t].yielded
    /\ task' = [task EXCEPT ![t].yielded = TRUE]
    /\ IF task[t].status = "raised"
       THEN /\ exc' = "BadZipFile"
            /\ pc' = "unwind"
            /\ UNCHANGED <<dest, zinfo>>
       ELSE /\ dest' = Append(dest, WriteStr(task[t].item, task[t].out))
            /\ zinfo' = [zinfo EXCEPT ![task[t].item] =
                                        Rewritten(task[t].item, task[t].out)]
            /\ UNCHANGED <<exc, pc>>
    /\ UNCHANGED <<cli, impl, img_format, quality, inputOk, source, nsub, finalized>>

\* the executor shut down with wait=False: the with block is left while tasks
\* are still queued or running
ExecutorExitNoWait ==
    /\ pc \in {"collect", "unwind"}
    /\ pc = "collect" => \A t \in Tasks : task[t].yielded
    /\ pc' = "close"
    /\ UNCHANGED <<cli, impl, img_format, quality, inputOk, source, zinfo, task, nsub,
                   dest, finalized, exc>>

\* the executor's with block is left (the loop is over, or an exception is in
\* flight): shutdown(wait=True) returns once every task has finished
ExecutorExit ==
    /\ pc \in {"collect", "unwind"}
    /\ pc = "collect" => \A t \in Tasks : task[t].yielded
    /\ \A t \in Tasks : Finished(t)
    /\ pc' = "close"
    /\ UNCHANGED <<cli, impl, img_format, quality, inputOk, source, zinfo, task, nsub,
                   dest, finalized, exc>>

\* file returned from inside the with block: the archive is never closed
CloseDestSkipped ==
    /\ pc = "close"
    /\ finalized' = FALSE
    /\ pc' = "leave"
    /\ UNCHANGED <<cli, impl, img_format, quality, inputOk, source, zinfo, task, nsub,
                   dest, exc>>

\* epub_file's with block is left: close() writes the central directory
CloseDest ==
    /\ pc = "close"
    /\ finalized' = TRUE
    /\ pc' = "leave"
    /\ UNCHANGED <<cli, impl, img_format, quality, inputOk, source, zinfo, task, nsub,
                   dest, exc>>

\* return file, or the exception in flight leaves compress_epub
Leave ==
    /\ pc = "leave"
    /\ pc' = IF exc = "none" THEN "returned" ELSE "raised"
    /\ UNCHANGED <<cli, impl, img_format, quality, inputOk, source, zinfo, task, nsub,
                   dest, finalized, exc>>

Next ==
    \/ Open
    \/ Submit
    \/ \E t \in Tasks : TaskRead(t)
    \/ \E t \in Tasks : TaskProcess(t)
    \/ \E t \in Tasks : Collect(t)
    \/ ExecutorExit
    \/ CloseDest
    \/ Leave

Spec == Init /\ [][Next]_vars

SpecAny == InitAny /\ [][Next]_vars

\* Some thread that can take a step eventually takes one: the orchestrating
\* thread and the pool's worker threads are scheduled by the host, and every
\* step of the pipeline ends (the codec call of a task returns or raises).
LiveSpec == Init /\ [][Next]_vars /\ WF_vars(Next)

----------------------------------------------------------------------------
(* The command-line program: cli.py main, which calls compress.py *)

\* main after parse_args, about to call compress_epub on any input path
InitMain ==
    /\ InitPipeline
    /\ cli = Caller("call")
    /\ impl = "compress"
    /\ inputOk \in BOOLEAN
    /\ source \in IF inputOk THEN Archives(AnyPool) ELSE {<<>>}

\* compress_epub raised: the call is outside main's try, so the exception
\* leaves main, the interpreter prints the traceback and exits with 1
MainCrash ==
    /\ cli.at = "call"
    /\ pc = "raised"
    /\ cli' = [cli EXCEPT !.at = "exited", !.code = 1, !.msg = "traceback"]
    /\ UNCHANGED <<impl, img_format, quality, inputOk, source, zinfo, task, nsub,
                   dest, finalized, exc, pc>>

\* compress_epub returned: the try block opens the output path and writes
\* out.getvalue(); the bare except prints "Error writing file."
MainWrite ==
    /\ cli.at = "call"
    /\ pc = "returned"
    /\ \E ok \in BOOLEAN :
         cli' = IF ok
                THEN [cli EXCEPT !.at = "end", !.file = "written"]
                ELSE [cli EXCEPT !.at = "end", !.msg = "Error writing file."]
    /\ UNCHANGED <<impl, img_format, quality, inputOk, source, zinfo, task, nsub,
                   dest, finalized, exc, pc>>

\* main returns after the try statement, whichever branch ran: the process
\* exits with 0
MainReturn ==
    /\ cli.at = "end"
    /\ cli' = [cli EXCEPT !.at = "exited", !.code = 0]
    /\ UNCHANGED <<impl, img_format, quality, inputOk, source, zinfo, task, nsub,
                   dest, finalized, exc, pc>>

MainNext ==
    \/ Open
    \/ Submit
    \/ \E t \in Tasks : TaskRead(t)
    \/ \E t \in Tasks : TaskProcess(t)
    \/ \E t \in Tasks : Collect(t)
    \/ ExecutorExit
    \/ CloseDest
    \/ Leave
    \/ MainCrash
    \/ MainWrite
    \/ MainReturn

MainSpec == InitMain /\ [][MainNext]_vars

----------------------------------------------------------------------------
(* What the claims speak of *)

Entries == 1..Len(dest)

Members == 1..Len(source)

\* the names of the entries of an archive
NameSet(archive) == {archive[i].filename : i \in 1..Len(archive)}

\* how many destination entries were written from item i
TimesWritten(i) == Cardinality({k \in Entries : dest[k].item = i})

\* the name holds "cover" in some letter case
IsCoverName(name) ==
    \E i \in 1..(Len(name) - 4) :
        /\ name[i] \in {"c", "C"}
        /\ name[i + 1] \in {"o", "O"}
        /\ name[i + 2] \in {"v", "V"}
        /\ name[i + 3] \in {"e", "E"}
        /\ name[i + 4] \in {"r", "R"}

\* a MIME type whose major type is image
IsImageType(mime_type) == mime_type \in {MimePng, MimeJpeg}

----------------------------------------------------------------------------
(* C1 *)

\* C1: when compress_epub returns, the set of member names of the destination
\* archive equals the set of member names of the source archive, whatever the
\* completion order and also when images were transcoded.
C1_SameNameSet == pc = "returned" => NameSet(dest) = NameSet(source)

\* compress_epub has returned an archive with a transcoded image, written in an
\* order that is not the source order
C1_Witness ==
    /\ pc = "returned"
    /\ \E k \in Entries : dest[k].content.enc # "raw"
    /\ \E k \in Entries : k + 1 \in Entries /\ dest[k].item > dest[k + 1].item

----------------------------------------------------------------------------
(* C2 *)

\* C2: every destination entry written from a member whose bytes are no image
\* (text, also under a name with an image extension; bytes the codec cannot
\* decode) holds exactly the bytes stored for that member in the source.
C2_NonImageIdentical ==
    \A k \in Entries :
        ~Decodable(source[dest[k].item].content)
            => dest[k].content = source[dest[k].item].content

\* a text member was handed to the transcoder (its name has an image
\* extension) and its entry has been written
C2_Witness ==
    \E k \in Entries :
        /\ source[dest[k].item].content.kind = "text"
        /\ \E t \in Tasks : task[t].item = dest[k].item /\ task[t].called

----------------------------------------------------------------------------
(* C3 *)

\* C3: for a member whose name holds "cover" in any letter case the transcoder
\* is never called, and the entry written for it holds its source bytes, also
\* when the member is an image.
C3_CoverUntouched ==
    /\ \A t \in Tasks :
         IsCoverName(zinfo[task[t].arg].filename) => ~task[t].called
    /\ \A k \in Entries :
         IsCoverName(dest[k].filename)
            => dest[k].content = source[dest[k].item].content

\* the entry of an image member named Cover.JPG (capital C) has been written
C3_Witness ==
    \E k \in Entries :
        /\ IsCoverName(dest[k].filename)
        /\ ~Contains(dest[k].filename, StrCover)
        /\ Decodable(source[dest[k].item].content)

----------------------------------------------------------------------------
(* C4 *)

\* what member i's entry must hold given the outcome of its own codec call only
OwnOutput(t) ==
    IF task[t].codec = "ok"
    THEN Encoded(source[task[t].arg].content, quality, img_format)
    ELSE source[task[t].arg].content

\* C4: a task whose codec call failed finishes with the source bytes of its
\* member, and the bytes written for any member are determined by that
\* member's own bytes and the outcome of its own codec call: the failure of
\* one member changes no other member's output.
C4_FailOpenIsolated ==
    /\ \A t \in Tasks :
         (Finished(t) /\ task[t].codec = "error")
            => (task[t].status = "done" /\ task[t].out = source[task[t].arg].content)
    /\ \A k \in Entries :
         \A t \in Tasks :
            task[t].item = dest[k].item => dest[k].content = OwnOutput(t)

\* the codec failed on a decodable image, another image was transcoded, and
\* both entries are in the returned archive
C4_Witness ==
    /\ pc = "returned"
    /\ \E t, u \in Tasks :
         /\ task[t].codec = "error"
         /\ Decodable(source[task[t].arg].content)
         /\ task[u].codec = "ok"
         /\ dest[Len(dest)].item = task[t].item

----------------------------------------------------------------------------
(* C5 *)

\* C5: process_file calls the transcoder exactly when the type it determined
\* for the member is an image type and the name holds no "cover" in any letter
\* case; whenever it does not call it (also when no type was determined) it
\* returns the bytes it read.
C5_EligibilityRule ==
    \A t \in Tasks :
        task[t].status = "done" =>
            /\ task[t].called <=>
                 (/\ IsImageType(MimeTypeOf(zinfo[task[t].arg].filename, task[t].buf))
                  /\ ~IsCoverName(zinfo[task[t].arg].filename))
            /\ ~task[t].called => task[t].out = task[t].buf

\* compress.py has processed a member for which guess_type finds no type, whose
\* bytes are an image
C5_Witness ==
    \E t \in Tasks :
        /\ task[t].status = "done"
        /\ impl = "compress"
        /\ GuessType(zinfo[task[t].arg].filename) = NoMime
        /\ Decodable(task[t].buf)
        /\ ~task[t].called

----------------------------------------------------------------------------
(* C6 *)

\* C6: a call of compress_epub ends in one of two ways: it returns, with no
\* exception, an archive that holds an entry for every source member, or an
\* exception leaves it and the caller receives no archive; the caller never
\* receives an archive that lacks a source member.
C6_AllOrNothing ==
    /\ pc = "returned" => (exc = "none" /\ \A i \in Members : TimesWritten(i) >= 1)
    /\ pc = "raised" => exc # "none"

\* an exception left compress_epub after part of the entries had been written
C6_Witness ==
    /\ pc = "raised"
    /\ Len(dest) >= 1
    /\ \E i \in Members : TimesWritten(i) = 0

----------------------------------------------------------------------------
(* C7 *)

\* C7: once the codec has failed on a member, no future holds an exception, no
\* exception is in flight in compress_epub or leaves it, and when compress_epub
\* returns the archive holds every member.
C7_CodecFailureContained ==
    (\E t \in Tasks : task[t].codec = "error") =>
        /\ \A t \in Tasks : task[t].status # "raised"
        /\ exc = "none"
        /\ pc # "raised"
        /\ pc = "returned" => \A i \in Members : TimesWritten(i) = 1

\* the archive held a corrupt image, the transcoder was called on it and
\* failed, and compress_epub has returned
C7_Witness ==
    /\ pc = "returned"
    /\ \E t \in Tasks :
         /\ source[task[t].arg].content.kind = "corrupt"
         /\ task[t].called
         /\ task[t].codec = "error"
         /\ task[t].status = "done"

----------------------------------------------------------------------------
(* C8 *)

\* C8: no enumerated entry is ever written twice, and once the loop is over
\* every enumerated entry has been written exactly once, so that the
\* destination has as many entries as the source.
C8_OneEntryPerItem ==
    /\ \A i \in Members : TimesWritten(i) <= 1
    /\ pc \in {"close", "leave", "returned"} =>
         /\ \A i \in Members : TimesWritten(i) = 1
         /\ Len(dest) = Len(source)

\* the loop is over and the entry enumerated last was written first
C8_Witness ==
    /\ pc = "close"
    /\ Len(source) >= 2
    /\ dest[1].item = Len(source)

----------------------------------------------------------------------------
(* C9 *)

\* C9: every destination entry has the name, timestamp, compression method and
\* external attributes of the source member it was written from, whether or
\* not its content was transcoded.
C9_MetadataKept ==
    \A k \in Entries :
        LET m == source[dest[k].item]
        IN /\ dest[k].filename = m.filename
           /\ dest[k].date_time = m.date_time
           /\ dest[k].compress_type = m.compress_type
           /\ dest[k].external_attr = m.external_attr


----------------------------------------------------------------------------
(* C10 *)

\* C10: when every thread keeps running, compress_epub eventually returns;
\* when it has returned, every enumerated member's entry has been written and
\* the destination is finalized; for a source of 0 members it returns a
\* finalized archive without entries and no task was ever submitted.
C10_ReturnsFinalized ==
    /\ <>(pc = "returned")
    /\ [](pc = "returned" =>
            /\ finalized
            /\ \A i \in Members : TimesWritten(i) = 1
            /\ Len(source) = 0 => (dest = <<>> /\ task = <<>>))

\* compress_epub has returned the finalized archive of a source of several
\* members, all of whose tasks finished
C10_Witness ==
    /\ pc = "returned"
    /\ finalized
    /\ Len(source) >= 2
    /\ Len(dest) = Len(source)
    /\ \A t \in Tasks : Finished(t)

----------------------------------------------------------------------------
(* C11 *)

\* C11: when the command-line program has ended, its exit code is 0 exactly
\* when the compressed archive was written to the output path, and whenever
\* the archive was not written the exit code is nonzero and the user was given
\* an error message.
C11_ExitCodeTellsSuccess ==
    cli.at = "exited" =>
        /\ cli.code = 0 <=> cli.file = "written"
        /\ cli.file # "written" => (cli.code # 0 /\ cli.msg # "none")

----------------------------------------------------------------------------
(* C12 *)

\* a step of a worker thread: the state of some future changes
WorkerStep == \E t \in Tasks : task'[t].status # task[t].status

\* C12: a step of a worker task never changes the destination archive, and
\* every step that changes it is a step of the orchestrating thread in its
\* loop, appending one entry: the destination has a single writer.
C12_SingleWriter ==
    [][/\ WorkerStep => (dest' = dest /\ finalized' = finalized)
       /\ dest' # dest =>
            /\ pc = "collect"
            /\ ~WorkerStep
            /\ Len(dest') = Len(dest) + 1
            /\ SubSeq(dest', 1, Len(dest)) = dest]_vars

\* entries have been written while a worker task is still running
C12_Witness ==
    /\ Len(dest) >= 1
    /\ \E t \in Tasks : task[t].status = "read"

----------------------------------------------------------------------------
(* C13 *)

\* C13: once compress_epub is past the executor's with block, whether the loop
\* ended or a task's exception ended it, a task was dispatched for every
\* enumerated entry and every one of them has run to completion: a failed task
\* leaves no other task unstarted, running or cancelled.
C13_AllTasksRunToCompletion ==
    pc \in {"close", "leave", "returned", "raised"} =>
        /\ Len(task) = Len(source)
        /\ \A t \in Tasks : Finished(t)

\* a task failed and ended the loop; another task has run to completion
\* although its result was never collected
C13_Witness ==
    /\ pc = "close"
    /\ exc # "none"
    /\ \E t, u \in Tasks :
         /\ task[t].status = "raised"
         /\ task[u].status = "done"
         /\ ~task[u].yielded

----------------------------------------------------------------------------
(* C14 *)

\* C14: whenever the destination archive is finalized, a task was dispatched
\* for every enumerated entry and each of them holds its result or its
\* exception: none is pending or running, also in a run ended by a task's
\* exception.
C14_FinalizedAfterAllTasks ==
    finalized =>
        /\ Len(task) = Len(source)
        /\ \A t \in Tasks : task[t].status \notin {"queued", "read"}

\* the destination was finalized in a run that a task's exception ended
\* before every entry was written
C14_Witness ==
    /\ finalized
    /\ exc # "none"
    /\ Len(dest) < Len(source)
    /\ \E t \in Tasks : task[t].status = "raised"

----------------------------------------------------------------------------
(* C15 *)

\* C15: the record through which a task that has not read yet will look up
\* its member by name is as the source reader built it (no step of the
\* pipeline, writestr included, has changed it), no read fails, and every
\* task that has read holds the bytes stored in the source for the item it
\* was given.
C15_ReaderReadOnly ==
    \A t \in Tasks :
        /\ task[t].status = "queued" =>
             LET j == NameToInfo(zinfo[task[t].arg].filename)
             IN zinfo[j] = ZipInfoOf(j)
        /\ task[t].buf # NoBytes => task[t].buf = source[task[t].arg].content
        /\ task[t].status = "raised" => task[t].buf # NoBytes

----------------------------------------------------------------------------
(* C16 *)

\* C16: one task is submitted per enumerated source entry (task t is given
\* entry t, and once submission is over there are as many tasks as entries);
\* no two tasks have read the same stored entry, and when every task has
\* finished every stored entry has been read by some task, also when two
\* entries carry the same name.
C16_EachEntryReadOnce ==
    /\ Len(task) <= Len(source)
    /\ \A t \in Tasks : task[t].arg = t
    /\ pc \notin {"open", "submit"} => Len(task) = Len(source)
    /\ \A t, u \in Tasks :
         (t # u /\ task[t].buf # NoBytes /\ task[u].buf # NoBytes)
             => task[t].buf # task[u].buf
    /\ (Len(task) = Len(source) /\ \A t \in Tasks : task[t].status = "done")
         => \A i \in 1..Len(source) :
                \E t \in Tasks : task[t].buf = source[i].content

----------------------------------------------------------------------------
(* C17 *)

\* the codec as a deterministic function of the bytes it is given (quality and
\* format are fixed for the run): one answer per stored content
CodecFunctions ==
    {f \in [{source[i].content : i \in Members} -> {"ok", "error"}] :
        \A i \in Members : f[source[i].content] \in CodecOutcomes(source[i].content)}

\* the (name, bytes) pairs of the destination archive
Pairs == {<<dest[k].filename, dest[k].content>> : k \in Entries}

\* the pairs obtained by processing the members one after the other in source
\* order with codec function f: no task, no interleaving
SequentialPairs(f) ==
    {<<source[i].filename,
       ProcessFile(i, source[i].content, quality, img_format,
                   f[source[i].content]).bytes>> : i \in Members}

\* C17: with the codec a deterministic function f, whenever compress_epub
\* returns, the collection of (member name, output bytes) pairs of the
\* destination is the one that f, the source and the configuration determine
\* (that of processing the members one by one in source order), one pair per
\* member, whatever the interleaving and completion order of the run.
C17_SchedulingIndependent ==
    pc = "returned" =>
        \A f \in CodecFunctions :
            (\A t \in Tasks : task[t].called => task[t].codec = f[task[t].buf])
                => /\ Pairs = SequentialPairs(f)
                   /\ Len(dest) = Len(source)
                   /\ Cardinality(Pairs) = Len(source)

\* compress_epub has returned an archive whose entries were written in the
\* reverse of the source order, one of them transcoded
C17_Witness ==
    /\ pc = "returned"
    /\ Len(dest) >= 2
    /\ \A k \in Entries : dest[k].item = Len(dest) + 1 - k
    /\ \E k \in Entries : dest[k].content.enc # "raw"

----------------------------------------------------------------------------
(* C18 *)

\* C18: every destination entry was written from a task that had completed
\* with a result and been yielded to the loop: the entry's metadata is that of
\* the item this task was given and returned, and its content is the content
\* this same task returned.
C18_WrittenFromOwnTask ==
    \A k \in Entries :
        \E t \in Tasks :
            /\ task[t].arg = dest[k].item
            /\ task[t].status = "done"
            /\ task[t].yielded
            /\ task[t].item = task[t].arg
            /\ dest[k].filename = source[task[t].arg].filename
            /\ dest[k].content = task[t].out

\* a transcoded entry of a later member has been written first, while the task
\* of an earlier member has not started
C18_Witness ==
    /\ Len(dest) >= 1
    /\ dest[1].item > 1
    /\ dest[1].content.enc # "raw"
    /\ \E t \in Tasks : task[t].arg < dest[1].item /\ task[t].status = "queued"

----------------------------------------------------------------------------
(* C19 *)

\* C19: the first entry written to the destination archive is the first entry
\* of the source enumeration (for an EPUB the mimetype member), whatever the
\* completion order of the tasks.
C19_FirstEntryIsFirstSource ==
    Len(dest) >= 1 =>
        /\ dest[1].item = 1
        /\ dest[1].filename = source[1].filename

====
